---- MODULE Spec2Model ----
(***************************************************************************)
(* TelegramDialogLister (telegram_summarizer/utils/telegram_dialog_lister) *)
(* as a state machine: the lister object's field `client`, the transport   *)
(* and authentication state of every TelegramClient it created, the       *)
(* position of the one caller inside connect / list_dialogs, the local     *)
(* list `dialogs`, the log, and what each call handed back to the caller.  *)
(* The remote service (Telethon's client.start, iter_dialogs, disconnect)  *)
(* is the environment: each of its answers is a separate action.           *)
(***************************************************************************)
EXTENDS Integers, Sequences, FiniteSets, TLC

\* Bounds of the model.
MaxCalls == 4        \* method calls the caller makes on one lister
MaxEntities == 3     \* length of the longest remote listing
MaxClassified == 2   \* length of the longest listing of arbitrary entities

VARIABLES
    scope,       \* how the caller uses the lister: "direct" method calls, or the
                 \* `async with` block: "before", "entering", "body", "exited", "failed"
    pc,          \* caller's position: "idle", "start", "challenge", "start2", "iter"
    client,      \* self.client: 0 is None, n > 0 the n-th TelegramClient created
    created,     \* number of TelegramClient objects constructed so far
    open,        \* clients whose transport is connected (client.is_connected())
    authorized,  \* clients for which client.start() has returned normally
    closes,      \* closes[n]: times client.disconnect() ran on client n
    remote,      \* the remote's dialog listing (a one-shot snapshot)
    cursor,      \* entities the remote has handed out in the current listing
    dialogs,     \* the local list `dialogs` of list_dialogs
    result,      \* what the latest list_dialogs call delivered to its caller
    history,     \* completed calls, oldest first: [op, status, err]
    log,         \* logger records, oldest first
    signals,     \* rate-limit signals (FloodWaitError) received from the remote
    fetches,     \* requests for dialogs issued to the remote
    faults,      \* errors the remote raised in the latest list_dialogs call:
                 \* <<cursor position, error>>
    env,         \* os.environ: TELEGRAM_API_ID and TELEGRAM_API_HASH, each unset
                 \* (None) or set to a string
    api_id,      \* self.api_id ("" while the lister has not been built)
    api_hash     \* self.api_hash ("" while the lister has not been built)

vars == <<scope, pc, client, created, open, authorized, closes, remote, cursor,
          dialogs, result, history, log, signals, fetches, faults,
          env, api_id, api_hash>>

\* The configuration, fixed once the lister is built.
config == <<env, api_id, api_hash>>

None == {}                       \* Optional[int]: None is {}, the integer n is {n}
Some(n) == {n}

Last(s) == s[Len(s)]

----------------------------------------------------------------------------
(* Remote entities and their classification. *)

Shapes == <<"User", "Channel", "Chat", "Channel", "Other">>

\* The i-th entity of the remote listing: shapes, broadcast flags, names and
\* counts vary with i so that a listing mixes all of them.
Entity(i) ==
    [id        |-> i,
     shape     |-> Shapes[((i - 1) % 5) + 1],
     broadcast |-> (i % 4 = 2),
     name      |-> IF i % 3 = 0 THEN "" ELSE "chat",
     count     |-> IF i % 2 = 0 THEN Some(100 * i) ELSE None]

Listing(n) == [i \in 1..n |-> Entity(i)]

\* Variant of get_entity_type: the two branches of `if entity.broadcast` are
\* exchanged.
get_entity_type_swapped(entity) ==
    IF entity.shape = "User" THEN <<"Private Chat", None>>
    ELSE IF entity.shape = "Chat" THEN <<"Basic Group", entity.count>>
    ELSE IF entity.shape = "Channel" THEN
        IF entity.broadcast THEN <<"Supergroup", entity.count>>
        ELSE <<"Channel (broadcast)", entity.count>>
    ELSE <<"Unknown", None>>

get_entity_type(entity) ==
    IF entity.shape = "User" THEN <<"Private Chat", None>>
    ELSE IF entity.shape = "Chat" THEN <<"Basic Group", entity.count>>
    ELSE IF entity.shape = "Channel" THEN
        IF entity.broadcast THEN <<"Channel (broadcast)", entity.count>>
        ELSE <<"Supergroup", entity.count>>
    ELSE <<"Unknown", None>>

DialogInfo(entity) ==
    [name              |-> IF entity.name = "" THEN "Unnamed" ELSE entity.name,
     entity_id         |-> entity.id,
     entity_type       |-> get_entity_type(entity)[1],
     participant_count |-> get_entity_type(entity)[2]]

----------------------------------------------------------------------------
(* Configuration: the environment and _get_env_var. *)

\* int(value) for the strings the environment may hold: the integer, or None
\* where int raises ValueError. int accepts surrounding blanks.
IntOf(value) ==
    CASE value = "12345" -> Some(12345)
      [] value = " 42"   -> Some(42)
      [] OTHER           -> None

Returned(value) == [raised |-> FALSE, value |-> value]
Raised(message) == [raised |-> TRUE, value |-> message]

\* Variant of _get_env_var: only an unset variable is refused
\* (`if value is None`), an empty one is accepted.
get_env_var_accepts_empty(value, is_int) ==
    IF value = None
    THEN Raised("is not set")
    ELSE LET v == CHOOSE x \in value : TRUE IN
         IF is_int
         THEN IF IntOf(v) = None
              THEN Raised("must be a valid integer")
              ELSE Returned(ToString(CHOOSE n \in IntOf(v) : TRUE))
         ELSE Returned(v)

\* _get_env_var, given os.getenv(var_name): `not value` holds for None and
\* for the empty string.
get_env_var(value, is_int) ==
    IF value = None \/ value = Some("")
    THEN Raised("is not set")
    ELSE LET v == CHOOSE x \in value : TRUE IN
         IF is_int
         THEN IF IntOf(v) = None
              THEN Raised("must be a valid integer")
              ELSE Returned(ToString(CHOOSE n \in IntOf(v) : TRUE))
         ELSE Returned(v)

\* The environments the program may be started in.
Envs ==
    [TELEGRAM_API_ID   : {None, Some(""), Some("12345"), Some(" 42"),
                          Some("abc"), Some("1.5")},
     TELEGRAM_API_HASH : {None, Some(""), Some("0123abcd")}]

\* The environment of a lister that was built.
SetEnv == [TELEGRAM_API_ID |-> Some("12345"), TELEGRAM_API_HASH |-> Some("0123abcd")]

----------------------------------------------------------------------------
(* The lister. *)

Completed(op, status, err) == [op |-> op, status |-> status, err |-> err]

\* `self.client and self.client.is_connected()`: the test of list_dialogs and
\* of disconnect.
is_connected == client # 0 /\ client \in open

\* An exception of the body of the `async with` block is on its way out:
\* nothing runs before __aexit__.
Propagating ==
    /\ scope = "body"
    /\ history # <<>>
    /\ Last(history).status = "raised"

MayCall ==
    /\ pc = "idle"
    /\ Len(history) < MaxCalls

Init ==
    /\ scope \in {"direct", "before"}
    /\ pc = "idle"
    /\ client = 0
    /\ created = 0
    /\ open = {}
    /\ authorized = {}
    /\ closes = <<>>
    /\ remote \in {Listing(n) : n \in 0..MaxEntities}
    /\ cursor = 0
    /\ dialogs = <<>>
    /\ result = <<>>
    /\ history = <<>>
    /\ log = <<>>
    /\ signals = 0
    /\ fetches = 0
    /\ faults = {}
    /\ env = SetEnv
    /\ api_id = get_env_var(env.TELEGRAM_API_ID, TRUE).value
    /\ api_hash = get_env_var(env.TELEGRAM_API_HASH, FALSE).value

(* __init__ *)

\* TelegramDialogLister(): both variables are read and checked, then
\* self.client = None. A ValueError leaves the caller without a lister.
Construct ==
    /\ pc = "new"
    /\ LET id   == get_env_var(env.TELEGRAM_API_ID, TRUE)
           hash == get_env_var(env.TELEGRAM_API_HASH, FALSE)
       IN  IF id.raised \/ hash.raised
           THEN /\ pc' = "unbuilt"
                /\ scope' = "failed"
                /\ history' = Append(history, Completed("__init__", "raised", "ValueError"))
                /\ UNCHANGED <<api_id, api_hash>>
           ELSE /\ pc' = "idle"
                /\ api_id' = id.value
                /\ api_hash' = hash.value
                /\ UNCHANGED <<scope, history>>
    /\ client' = 0
    /\ UNCHANGED <<created, open, authorized, closes, remote, cursor, dialogs,
                   result, log, signals, fetches, faults, env>>

(* connect *)

\* connect up to its first await: a new TelegramClient replaces self.client
\* and client.start() is under way.
connect_begin ==
    /\ MayCall
    /\ created' = created + 1
    /\ client' = created + 1
    /\ closes' = Append(closes, 0)
    /\ pc' = "start"
    /\ UNCHANGED <<open, authorized, remote, cursor, dialogs, result, history,
                   log, signals, fetches, faults, config>>

ConnectBegin ==
    /\ scope = "direct"
    /\ connect_begin
    /\ UNCHANGED scope

\* __aenter__: await self.connect()
AEnter ==
    /\ scope = "before"
    /\ connect_begin
    /\ scope' = "entering"

\* connect hands control back to its caller. An `async with` whose __aenter__
\* raised never runs its body nor its __aexit__.
connect_done(status, err) ==
    /\ pc' = "idle"
    /\ history' = Append(history, Completed("connect", status, err))
    /\ scope' = IF scope = "entering"
                THEN (IF status = "returned" THEN "body" ELSE "failed")
                ELSE scope

\* client.start() returns.
StartOk ==
    /\ pc = "start"
    /\ open' = open \cup {client}
    /\ authorized' = authorized \cup {client}
    /\ log' = Append(log, "info: Successfully connected to Telegram")
    /\ connect_done("returned", "")
    /\ UNCHANGED <<client, created, closes, remote, cursor, dialogs, result,
                   signals, fetches, faults, config>>

\* client.start() raises SessionPasswordNeededError: an answer of the remote,
\* so the transport is open. The handler logs and is about to call input().
StartPasswordNeeded ==
    /\ pc = "start"
    /\ open' = open \cup {client}
    /\ log' = Append(log, "error: Two-factor authentication is enabled")
    /\ pc' = "challenge"
    /\ UNCHANGED <<scope, client, created, authorized, closes, remote, cursor,
                   dialogs, result, history, signals, fetches, faults,
                   config>>

\* Variant of StartFlood: the signal is logged and client.start() is tried
\* again instead of re-raising.
StartFlood_retries ==
    /\ pc = "start"
    /\ open' = open \cup {client}
    /\ signals' = signals + 1
    /\ log' = Append(log, "error: Rate limited")
    /\ UNCHANGED <<scope, pc, client, created, authorized, closes, remote,
                   cursor, dialogs, result, history, fetches, faults, config>>

\* client.start() raises FloodWaitError (an answer of the remote): logged and
\* re-raised.
StartFlood ==
    /\ pc = "start"
    /\ open' = open \cup {client}
    /\ signals' = signals + 1
    /\ log' = Append(log, "error: Rate limited")
    /\ connect_done("raised", "FloodWaitError")
    /\ UNCHANGED <<client, created, authorized, closes, remote, cursor, dialogs,
                   result, fetches, faults, config>>

\* client.start() raises because the remote rejects the credentials (an
\* answer of the remote): logged and re-raised.
StartRejected ==
    /\ pc = "start"
    /\ open' = open \cup {client}
    /\ log' = Append(log, "error: Failed to connect to Telegram")
    /\ connect_done("raised", "ApiIdInvalidError")
    /\ UNCHANGED <<client, created, authorized, closes, remote, cursor, dialogs,
                   result, signals, fetches, faults, config>>

\* client.start() raises because the transport could not be opened: logged
\* and re-raised.
StartUnreachable ==
    /\ pc = "start"
    /\ log' = Append(log, "error: Failed to connect to Telegram")
    /\ connect_done("raised", "ConnectionError")
    /\ UNCHANGED <<client, created, open, authorized, closes, remote, cursor,
                   dialogs, result, signals, fetches, faults, config>>

\* input() returns the password; client.start(password=password) is under way.
ChallengeAnswered ==
    /\ pc = "challenge"
    /\ pc' = "start2"
    /\ UNCHANGED <<scope, client, created, open, authorized, closes, remote,
                   cursor, dialogs, result, history, log, signals, fetches,
                   faults, config>>

\* input() raises (EOFError). Raised inside an except clause, the exception
\* reaches no other clause of the try statement: it leaves connect unlogged.
ChallengeFailed ==
    /\ pc = "challenge"
    /\ connect_done("raised", "EOFError")
    /\ UNCHANGED <<client, created, open, authorized, closes, remote, cursor,
                   dialogs, result, log, signals, fetches, faults, config>>

\* client.start(password=password) returns.
Start2Ok ==
    /\ pc = "start2"
    /\ authorized' = authorized \cup {client}
    /\ connect_done("returned", "")
    /\ UNCHANGED <<client, created, open, closes, remote, cursor, dialogs,
                   result, log, signals, fetches, faults, config>>

\* client.start(password=password) raises: the remote rejects the password.
Start2Rejected ==
    /\ pc = "start2"
    /\ connect_done("raised", "PasswordHashInvalidError")
    /\ UNCHANGED <<client, created, open, authorized, closes, remote, cursor,
                   dialogs, result, log, signals, fetches, faults, config>>

\* client.start(password=password) raises FloodWaitError.
Start2Flood ==
    /\ pc = "start2"
    /\ signals' = signals + 1
    /\ connect_done("raised", "FloodWaitError")
    /\ UNCHANGED <<client, created, open, authorized, closes, remote, cursor,
                   dialogs, result, log, fetches, faults, config>>

(* list_dialogs *)

\* list_dialogs raises: the local list goes with the frame, the caller gets
\* the exception and nothing else.
list_raise(err) ==
    /\ pc' = "idle"
    /\ dialogs' = <<>>
    /\ result' = <<>>
    /\ history' = Append(history, Completed("list_dialogs", "raised", err))

\* The precondition of list_dialogs fails.
ListNotConnected ==
    /\ scope \in {"direct", "body"}
    /\ ~Propagating
    /\ MayCall
    /\ ~is_connected
    /\ faults' = {}
    /\ list_raise("RuntimeError")
    /\ UNCHANGED <<scope, client, created, open, authorized, closes, remote,
                   cursor, log, signals, fetches, config>>

\* The precondition holds: dialogs = [], and the iteration starts.
ListBegin ==
    /\ scope \in {"direct", "body"}
    /\ ~Propagating
    /\ MayCall
    /\ is_connected
    /\ dialogs' = <<>>
    /\ result' = <<>>
    /\ cursor' = 0
    /\ faults' = {}
    /\ log' = Append(log, "info: Fetching dialogs...")
    /\ pc' = "iter"
    /\ UNCHANGED <<scope, client, created, open, authorized, closes, remote,
                   history, signals, fetches, config>>

\* Variant of IterEntity: the new record is put in front of the list
\* (`dialogs.insert(0, dialog_info)`).
IterEntity_prepends ==
    /\ pc = "iter"
    /\ client \in authorized
    /\ cursor < Len(remote)
    /\ fetches' = fetches + 1
    /\ cursor' = cursor + 1
    /\ dialogs' = <<DialogInfo(remote[cursor + 1])>> \o dialogs
    /\ UNCHANGED <<scope, pc, client, created, open, authorized, closes, remote,
                   result, history, log, signals, faults, config>>

\* iter_dialogs yields the next dialog; its DialogInfo is appended.
IterEntity ==
    /\ pc = "iter"
    /\ client \in authorized
    /\ cursor < Len(remote)
    /\ fetches' = fetches + 1
    /\ cursor' = cursor + 1
    /\ dialogs' = Append(dialogs, DialogInfo(remote[cursor + 1]))
    /\ UNCHANGED <<scope, pc, client, created, open, authorized, closes, remote,
                   result, history, log, signals, faults, config>>

\* iter_dialogs is exhausted: the list is returned.
IterEnd ==
    /\ pc = "iter"
    /\ client \in authorized
    /\ cursor = Len(remote)
    /\ fetches' = fetches + 1
    /\ log' = Append(log, "info: Found dialogs")
    /\ result' = dialogs
    /\ dialogs' = <<>>
    /\ pc' = "idle"
    /\ history' = Append(history, Completed("list_dialogs", "returned", ""))
    /\ UNCHANGED <<scope, client, created, open, authorized, closes, remote,
                   cursor, signals, faults, config>>

\* Variant of IterFlood: the signal is logged and the iteration goes on from
\* the cursor instead of re-raising.
IterFlood_resumes ==
    /\ pc = "iter"
    /\ fetches' = fetches + 1
    /\ signals' = signals + 1
    /\ faults' = faults \cup {<<cursor, "FloodWaitError">>}
    /\ log' = Append(log, "error: Rate limited while fetching dialogs")
    /\ UNCHANGED <<scope, pc, client, created, open, authorized, closes, remote,
                   cursor, dialogs, result, history, config>>

\* iter_dialogs raises FloodWaitError: logged and re-raised.
IterFlood ==
    /\ pc = "iter"
    /\ fetches' = fetches + 1
    /\ signals' = signals + 1
    /\ faults' = faults \cup {<<cursor, "FloodWaitError">>}
    /\ log' = Append(log, "error: Rate limited while fetching dialogs")
    /\ list_raise("FloodWaitError")
    /\ UNCHANGED <<scope, client, created, open, authorized, closes, remote,
                   cursor, config>>

\* Variant of IterError: the error is logged and the list built so far is
\* returned instead of re-raising.
IterError_returns_partial ==
    /\ pc = "iter"
    /\ fetches' = fetches + 1
    /\ faults' = faults \cup {<<cursor, "RPCError">>}
    /\ log' = Append(log, "error: Error while fetching dialogs")
    /\ result' = dialogs
    /\ dialogs' = <<>>
    /\ pc' = "idle"
    /\ history' = Append(history, Completed("list_dialogs", "returned", ""))
    /\ UNCHANGED <<scope, client, created, open, authorized, closes, remote,
                   cursor, signals, config>>

\* Variant of IterError: the handler also disconnects the client before
\* re-raising.
IterError_disconnects ==
    /\ pc = "iter"
    /\ fetches' = fetches + 1
    /\ faults' = faults \cup {<<cursor, "RPCError">>}
    /\ log' = Append(log, "error: Error while fetching dialogs")
    /\ open' = open \ {client}
    /\ closes' = [closes EXCEPT ![client] = @ + 1]
    /\ list_raise("RPCError")
    /\ UNCHANGED <<scope, client, created, authorized, remote, cursor, signals, config>>

\* iter_dialogs raises another error of the remote (always so for a client
\* that never authenticated): logged and re-raised.
IterError ==
    /\ pc = "iter"
    /\ fetches' = fetches + 1
    /\ faults' = faults \cup {<<cursor, "RPCError">>}
    /\ log' = Append(log, "error: Error while fetching dialogs")
    /\ list_raise("RPCError")
    /\ UNCHANGED <<scope, client, created, open, authorized, closes, remote,
                   cursor, signals, config>>

(* disconnect *)

\* Variant of disconnect: the test is inverted (`not is_connected()`).
disconnect_inverted ==
    IF client # 0 /\ client \notin open
    THEN /\ closes' = [closes EXCEPT ![client] = @ + 1]
         /\ log' = Append(log, "info: Disconnected from Telegram")
         /\ UNCHANGED open
    ELSE UNCHANGED <<open, closes, log>>

\* Variant of disconnect: only `self.client` is tested, not is_connected().
disconnect_unguarded ==
    IF client # 0
    THEN /\ open' = open \ {client}
         /\ closes' = [closes EXCEPT ![client] = @ + 1]
         /\ log' = Append(log, "info: Disconnected from Telegram")
    ELSE UNCHANGED <<open, closes, log>>

disconnect ==
    IF is_connected
    THEN /\ open' = open \ {client}
         /\ closes' = [closes EXCEPT ![client] = @ + 1]
         /\ log' = Append(log, "info: Disconnected from Telegram")
    ELSE UNCHANGED <<open, closes, log>>

Disconnect ==
    /\ scope = "direct"
    /\ MayCall
    /\ disconnect
    /\ history' = Append(history, Completed("disconnect", "returned", ""))
    /\ UNCHANGED <<scope, pc, client, created, authorized, remote, cursor,
                   dialogs, result, signals, fetches, faults, config>>

\* Variant of AExit: __aexit__ disconnects only when the body ended without
\* an exception (`if exc_type is None`).
AExit_only_on_success ==
    /\ scope = "body"
    /\ pc \in {"idle", "iter"}
    /\ IF pc = "idle" /\ ~Propagating
       THEN disconnect
       ELSE UNCHANGED <<open, closes, log>>
    /\ scope' = "exited"
    /\ pc' = "idle"
    /\ dialogs' = <<>>
    /\ history' =
         (IF pc = "iter"
          THEN Append(history, Completed("list_dialogs", "raised", "CancelledError"))
          ELSE history)
         \o <<Completed("disconnect", "returned", "")>>
    /\ UNCHANGED <<client, created, authorized, remote, cursor, result, signals,
                   fetches, faults, config>>

\* The body of the `async with` block is left - it ran to its end, an
\* exception of list_dialogs leaves it, or the caller's task is cancelled
\* while list_dialogs awaits the remote - and __aexit__ awaits disconnect.
AExit ==
    /\ scope = "body"
    /\ pc \in {"idle", "iter"}
    /\ disconnect
    /\ scope' = "exited"
    /\ pc' = "idle"
    /\ dialogs' = <<>>
    /\ history' =
         (IF pc = "iter"
          THEN Append(history, Completed("list_dialogs", "raised", "CancelledError"))
          ELSE history)
         \o <<Completed("disconnect", "returned", "")>>
    /\ UNCHANGED <<client, created, authorized, remote, cursor, result, signals,
                   fetches, faults, config>>

Next ==
    \/ ConnectBegin
    \/ AEnter
    \/ StartOk
    \/ StartPasswordNeeded
    \/ StartFlood
    \/ StartRejected
    \/ StartUnreachable
    \/ ChallengeAnswered
    \/ ChallengeFailed
    \/ Start2Ok
    \/ Start2Rejected
    \/ Start2Flood
    \/ ListNotConnected
    \/ ListBegin
    \/ IterEntity
    \/ IterEnd
    \/ IterFlood
    \/ IterError
    \/ Disconnect
    \/ AExit

Spec == Init /\ [][Next]_vars

----------------------------------------------------------------------------
(* The program main of test_loader: the lister is built from the environment
   and used in an `async with` block. *)

MainInit ==
    /\ scope = "before"
    /\ pc = "new"
    /\ client = 0
    /\ created = 0
    /\ open = {}
    /\ authorized = {}
    /\ closes = <<>>
    /\ remote \in {Listing(n) : n \in 0..MaxEntities}
    /\ cursor = 0
    /\ dialogs = <<>>
    /\ result = <<>>
    /\ history = <<>>
    /\ log = <<>>
    /\ signals = 0
    /\ fetches = 0
    /\ faults = {}
    /\ env \in Envs
    /\ api_id = ""
    /\ api_hash = ""

MainNext ==
    \/ Construct
    \/ AEnter
    \/ StartOk
    \/ StartPasswordNeeded
    \/ StartFlood
    \/ StartRejected
    \/ StartUnreachable
    \/ ChallengeAnswered
    \/ ChallengeFailed
    \/ Start2Ok
    \/ Start2Rejected
    \/ Start2Flood
    \/ ListBegin
    \/ IterEntity
    \/ IterEnd
    \/ IterFlood
    \/ IterError
    \/ AExit

MainSpec == MainInit /\ [][MainNext]_vars

----------------------------------------------------------------------------
(* list_dialogs over listings of arbitrary entities. *)

\* Every kind of entity the remote can hand out: the three known types and
\* any other, with and without the broadcast flag, a name and a count.
Entities ==
    [id        : {7},
     shape     : {"User", "Chat", "Channel", "Other"},
     broadcast : BOOLEAN,
     name      : {"", "News"},
     count     : {None, Some(0), Some(500)}]

Listings(n) == UNION {[1..k -> Entities] : k \in 1..n}

\* A connected lister whose list_dialogs call has passed its precondition:
\* the state after connect returned and the iteration started.
ClassifyInit ==
    /\ scope = "direct"
    /\ pc = "iter"
    /\ client = 1
    /\ created = 1
    /\ open = {1}
    /\ authorized = {1}
    /\ closes = <<0>>
    /\ remote \in Listings(MaxClassified)
    /\ cursor = 0
    /\ dialogs = <<>>
    /\ result = <<>>
    /\ history = <<Completed("connect", "returned", "")>>
    /\ log = <<"info: Successfully connected to Telegram",
               "info: Fetching dialogs...">>
    /\ signals = 0
    /\ fetches = 0
    /\ faults = {}
    /\ env = SetEnv
    /\ api_id = get_env_var(env.TELEGRAM_API_ID, TRUE).value
    /\ api_hash = get_env_var(env.TELEGRAM_API_HASH, FALSE).value

ClassifyNext ==
    \/ IterEntity
    \/ IterEnd

ClassifySpec == ClassifyInit /\ [][ClassifyNext]_vars

----------------------------------------------------------------------------
(* The states of the session life cycle, read off the lister. *)

\* Connecting and AwaitingChallenge are the caller's positions inside connect;
\* at rest the lister is Connected when its client's transport is open and
\* client.start() has returned, Disconnected when the transport is not open,
\* and Unauthenticated when the transport is open but start() never returned.
State ==
    IF pc = "start" THEN "Connecting"
    ELSE IF pc \in {"challenge", "start2"} THEN "AwaitingChallenge"
    ELSE IF ~is_connected THEN "Disconnected"
    ELSE IF client \in authorized THEN "Connected"
    ELSE "Unauthenticated"

\* The records list_dialogs owes for the first k entities of the listing.
Expected(k) == [i \in 1..k |-> DialogInfo(remote[i])]

\* The cursor positions at which the latest list_dialogs call received `err`.
FaultsAt(err) == {f[1] : f \in {g \in faults : g[2] = err}}

RateLimitedAt == FaultsAt("FloodWaitError")

FailedAt == FaultsAt("RPCError")

LastCall == Last(history)

AfterCall(op) == pc = "idle" /\ history # <<>> /\ LastCall.op = op

\* A step in which a call of the method `op` hands control back.
Ends(op) == history' # history /\ Last(history').op = op

----------------------------------------------------------------------------
(* Claims. *)

\* C1: once the body of `async with TelegramDialogLister()` has been left
\* after a successful connect - at its end, by cancellation in the middle of
\* the enumeration, or by an exception of list_dialogs - disconnect has run,
\* the client is not connected, its transport was closed exactly once, and
\* no enumeration is in progress.
C1_ScopedExitDisconnects ==
    scope = "exited" =>
        /\ LastCall = Completed("disconnect", "returned", "")
        /\ ~is_connected
        /\ closes[client] = 1
        /\ pc = "idle"

\* C1 witness: the body was cancelled after one entity had been enumerated,
\* and the block has been left.
C1_Witness ==
    /\ scope = "exited"
    /\ Len(history) >= 3
    /\ history[Len(history) - 1].err = "CancelledError"
    /\ cursor >= 1
    /\ closes[client] = 1

\* C2 (as claimed): after a connect that raised, whatever the error, the
\* client's transport is not open.
C2_FailedConnectLeavesNothingOpen ==
    (AfterCall("connect") /\ LastCall.status = "raised") => open = {}

C6_ChallengeOutcome ==
    [][(pc \in {"challenge", "start2"} /\ Ends("connect")) =>
          /\ State = "AwaitingChallenge"
          /\ (LastCall'.status = "returned" => State' = "Connected")
          /\ (LastCall'.status = "raised" => State' = "Disconnected")]_vars

\* C7 (as claimed): a list_dialogs call made while the client is not in
\* state Connected raises the not-connected error at once, issues no fetch,
\* makes no connect and leaves the client as it was.
C7_ListRequiresConnected ==
    [][(pc = "idle" /\ State # "Connected"
            /\ (pc' = "iter" \/ Ends("list_dialogs"))) =>
          /\ pc' = "idle"
          /\ LastCall' = Completed("list_dialogs", "raised", "RuntimeError")
          /\ UNCHANGED <<client, created, open, authorized, closes, fetches>>]_vars

\* C8 (as claimed): the connectedness test that gates list_dialogs is true
\* only in state Connected: never while connect is Connecting or
\* AwaitingChallenge, and never for a client whose authentication failed.
C8_ConnectedOnlyWhenAuthenticated ==
    is_connected => State = "Connected"

\* C9: whenever the latest completed call is disconnect - after a successful
\* listing, after a cancelled one, after an error, or with nothing to
\* release - the connectedness test is false.
C9_DisconnectedAfterDisconnect ==
    AfterCall("disconnect") => ~is_connected

\* C9 witness: disconnect followed a list_dialogs call that raised on a
\* connected client, and closed the transport.
C9_Witness ==
    /\ AfterCall("disconnect")
    /\ Len(history) >= 3
    /\ history[Len(history) - 1].op = "list_dialogs"
    /\ history[Len(history) - 1].status = "raised"
    /\ client # 0
    /\ closes[client] = 1
    /\ ~is_connected

\* C10: disconnect always returns normally and leaves the client not
\* connected; on a client that is not connected (never connected, or already
\* disconnected) it changes nothing of the lister, of the transports or of
\* the log; and no transport is ever closed more than once.
C10_DisconnectIdempotent ==
    /\ [][Ends("disconnect") =>
            /\ LastCall' = Completed("disconnect", "returned", "")
            /\ ~is_connected'
            /\ (~is_connected =>
                  UNCHANGED <<client, created, open, authorized, closes, log>>)]_vars
    /\ [](\A n \in 1..Len(closes) : closes[n] <= 1)

\* C10 witness: disconnect was called twice in a row on a client that had
\* been connected, and the transport was closed once.
C10_Witness ==
    /\ AfterCall("disconnect")
    /\ Len(history) >= 3
    /\ history[Len(history) - 1].op = "disconnect"
    /\ history[Len(history) - 2] = Completed("connect", "returned", "")
    /\ closes[client] = 1

\* C11: a list_dialogs call that returned (the remote raised neither a rate
\* limit nor an error) delivered exactly one record per entity of the
\* listing, in the remote's order, each carrying its entity's identifier.
C11_OneRecordPerEntityInOrder ==
    (AfterCall("list_dialogs") /\ LastCall.status = "returned") =>
        /\ Len(result) = Len(remote)
        /\ \A i \in 1..Len(remote) :
              /\ result[i].entity_id = remote[i].id
              /\ result[i] = DialogInfo(remote[i])
        /\ faults = {}

\* C11 witness: a listing of three entities was returned in full.
C11_Witness ==
    /\ AfterCall("list_dialogs")
    /\ LastCall.status = "returned"
    /\ Len(remote) = 3
    /\ <<result[1].entity_id, result[2].entity_id, result[3].entity_id>>
         = <<remote[1].id, remote[2].id, remote[3].id>>

\* C14 (as claimed): in every reachable state the lister's clients have at
\* most one open transport between them.
C14_AtMostOneOpenTransport ==
    Cardinality(open) <= 1

\* The log records that report a rate limit.
RateLimitRecords ==
    {i \in 1..Len(log) : log[i] \in {"error: Rate limited",
                                     "error: Rate limited while fetching dialogs"}}

\* C15 (as claimed): every rate-limit signal received from the remote, in
\* connect (the second-factor attempt included) or in list_dialogs, has its
\* record in the log.
C15_EveryRateLimitLogged ==
    Cardinality(RateLimitRecords) = signals

\* A step of list_dialogs: its precondition check, an answer of the remote
\* to its iteration, or its return or raise (not the caller leaving the
\* `async with` block).
ListStep ==
    /\ scope' = scope
    /\ \/ pc = "iter"
       \/ pc = "idle" /\ pc' = "iter"
       \/ pc = "idle" /\ Ends("list_dialogs")

\* C16: no step of list_dialogs changes the connection: self.client, the
\* open transports, the authenticated clients and the transports closed are
\* the same after it as before it, and so is the connectedness test.
C16_ListLeavesConnectionAlone ==
    [][ListStep =>
          /\ UNCHANGED <<client, created, open, authorized, closes>>
          /\ is_connected' = is_connected]_vars

\* C16 witness: list_dialogs raised on a remote error in the middle of the
\* listing and the client is still connected: the release is left to the
\* caller's disconnect.
C16_Witness ==
    /\ AfterCall("list_dialogs")
    /\ LastCall = Completed("list_dialogs", "raised", "RPCError")
    /\ cursor >= 1
    /\ is_connected
    /\ State = "Connected"
    /\ closes[client] = 0

Labels ==
    {"Private Chat", "Basic Group", "Supergroup", "Channel (broadcast)", "Unknown"}

\* The five rules, in order, for the record `d` made from the entity `e`.
FollowsRules(e, d) ==
    /\ e.shape = "User" =>
          d.entity_type = "Private Chat" /\ d.participant_count = None
    /\ e.shape = "Chat" =>
          d.entity_type = "Basic Group" /\ d.participant_count = e.count
    /\ (e.shape = "Channel" /\ e.broadcast) =>
          d.entity_type = "Channel (broadcast)" /\ d.participant_count = e.count
    /\ (e.shape = "Channel" /\ ~e.broadcast) =>
          d.entity_type = "Supergroup" /\ d.participant_count = e.count
    /\ e.shape \notin {"User", "Chat", "Channel"} =>
          d.entity_type = "Unknown" /\ d.participant_count = None
    /\ d.entity_type \in Labels

\* C12: every record list_dialogs builds or returns carries the category and
\* the count the five ordered rules give for its entity, whatever the
\* entity's shape, broadcast flag and count, and its category is one of the
\* five labels.
C12_ClassifyFollowsRules ==
    /\ \A i \in 1..Len(dialogs) : FollowsRules(remote[i], dialogs[i])
    /\ \A i \in 1..Len(result) : FollowsRules(remote[i], result[i])

\* C12 witness: a returned listing holds a broadcast channel with a count of
\* 500 and an entity of no known type.
C12_Witness ==
    /\ AfterCall("list_dialogs")
    /\ Len(result) = 2
    /\ remote[1].shape = "Channel" /\ remote[1].broadcast
    /\ result[1].entity_type = "Channel (broadcast)"
    /\ result[1].participant_count = Some(500)
    /\ remote[2].shape = "Other" /\ remote[2].count = Some(500)
    /\ result[2].entity_type = "Unknown"
    /\ result[2].participant_count = None

\* The credentials are missing or malformed: the secret is unset or empty,
\* or the application identifier is unset, empty or not an integer.
BadCredentials ==
    \/ env.TELEGRAM_API_HASH \in {None, Some("")}
    \/ env.TELEGRAM_API_ID \notin {Some("12345"), Some(" 42")}

\* C13: with missing or malformed credentials, building the lister raises
\* the configuration error (ValueError) once and nothing else happens: no
\* lister is left to the caller, no client was created, no transport was
\* opened, nothing was asked of the remote, and the building is not tried
\* again.
C13_BadCredentialsFailBeforeConnecting ==
    (BadCredentials /\ pc # "new") =>
        /\ pc = "unbuilt"
        /\ scope = "failed"
        /\ history = <<Completed("__init__", "raised", "ValueError")>>
        /\ client = 0
        /\ created = 0
        /\ open = {}
        /\ fetches = 0
        /\ signals = 0

\* C13 witness: the identifier is set and the secret is empty, and the
\* building has failed.
C13_Witness ==
    /\ env.TELEGRAM_API_ID = Some("12345")
    /\ env.TELEGRAM_API_HASH = Some("")
    /\ pc = "unbuilt"
    /\ history = <<Completed("__init__", "raised", "ValueError")>>
    /\ open = {}
====
